---- MODULE Spec2Model ----
(***************************************************************************)
(* A model of qalamTools/NastaliqKerning.py: the two FEZ verbs             *)
(* NastaliqKerning and AtHeight.  NastaliqKerning.action is modelled step  *)
(* by step (one step per tuple of the enumeration loop, one step per call  *)
(* of determine_kern_cached inside generate_kern_table_for_rise), so that  *)
(* the order of emission, the memo tables and a solver failure partway     *)
(* are all visible as states.  AtHeight.action is one step.                *)
(***************************************************************************)
EXTENDS Integers, Sequences, FiniteSets, TLC

(***************************************************************************)
(* Module constants of the source.                                         *)
(***************************************************************************)
accuracy1 == 3
rise_quantization == 100
maximum_rise == 600
kern_quantization == 10
maximum_word_length == 5

blockers == <<"AINf1", "JIMf1">>

(***************************************************************************)
(* Bounds of the model.                                                    *)
(***************************************************************************)
\* how many times the NastaliqKerning verb is run against the same store
MaxRuns == 2
\* how many direct calls of generate_kern_table_for_rise the harness makes
MaxTestCalls == 2

(***************************************************************************)
(* Small helpers.                                                          *)
(***************************************************************************)
Range(s) == {s[k] : k \in DOMAIN s}

Reverse(s) == [k \in 1..Len(s) |-> s[Len(s) + 1 - k]]

RECURSIVE SeqSum(_)
SeqSum(s) == IF s = <<>> THEN 0 ELSE Head(s) + SeqSum(Tail(s))

Max(a, b) == IF a >= b THEN a ELSE b

\* Python's round(): to the nearest integer, a tie going to the even one.
\* The argument is the exact quotient number / degree, degree > 0.
PyRound(number, degree) ==
    LET fl == number \div degree
        rm == number % degree
    IN  IF 2 * rm < degree THEN fl
        ELSE IF 2 * rm > degree THEN fl + 1
        ELSE IF fl % 2 = 0 THEN fl ELSE fl + 1

quantize(number, degree) == degree * PyRound(number, degree)

\* Python's int() of the exact quotient n10 / 10: truncation towards zero.
PyInt10(n10) == IF n10 >= 0 THEN n10 \div 10 ELSE -((-n10) \div 10)

\* str() of the float percent / 100.0 (the shortest repr), e.g. 40 -> "0.4".
StrTuck(percent) ==
    LET whole == percent \div 100
        frac  == percent % 100
    IN  ToString(whole) \o "." \o
        (IF frac % 10 = 0 THEN ToString(frac \div 10)
         ELSE ToString(frac \div 10) \o ToString(frac % 10))

(***************************************************************************)
(* The fonts: the named classes of the feature file, the rise bins that    *)
(* bin_glyphs_by_metric returns for them (accuracy1 bins, fewer when the   *)
(* class has fewer glyphs) and the side bearings of the glyphs.            *)
(* binned_finas is the binning of the finals without the bari-ye glyphs    *)
(* (NastaliqKerning); binned_finas_all that of the whole class (AtHeight). *)
(***************************************************************************)
\* every glyph name, in the order Python's sorted() puts them
GlyphNames == <<"AINf1", "ALIFu1", "BARI_YEf1", "BEf1", "BEi1", "BEm1",
                "DALu1", "JIMf1", "JIMi1", "JIMm1", "NUNf1", "REf1">>

Rank(g) == CHOOSE k \in DOMAIN GlyphNames : GlyphNames[k] = g

Fonts == <<
  [ inits  |-> <<"BEi1", "JIMi1">>,
    isols  |-> <<"ALIFu1">>,
    finas  |-> <<"AINf1", "BEf1", "REf1", "NUNf1", "JIMf1", "BARI_YEf1">>,
    bariye |-> <<"BARI_YEf1">>,
    binned_medis |-> << [glyphs |-> {"BEm1"},  rise |-> 0],
                        [glyphs |-> {"JIMm1"}, rise |-> 150] >>,
    binned_finas |-> << [glyphs |-> {"AINf1", "BEf1", "REf1"}, rise |-> -120],
                        [glyphs |-> {"NUNf1"}, rise |-> 100],
                        [glyphs |-> {"JIMf1"}, rise |-> 250] >>,
    binned_finas_all |->
                     << [glyphs |-> {"AINf1", "BEf1", "REf1"}, rise |-> -120],
                        [glyphs |-> {"NUNf1"}, rise |-> 100],
                        [glyphs |-> {"JIMf1", "BARI_YEf1"}, rise |-> 255] >>,
    lsb |-> [g \in Range(GlyphNames) |->
               CASE g = "AINf1" -> 5 [] g = "BEf1" -> 0 [] g = "REf1" -> -2
                 [] g = "NUNf1" -> 7 [] g = "JIMf1" -> 3
                 [] g = "BARI_YEf1" -> 20 [] g = "ALIFu1" -> 6
                 [] g = "BEi1" -> 3 [] g = "JIMi1" -> -4 [] OTHER -> 1],
    rsb |-> [g \in Range(GlyphNames) |->
               CASE g = "BEi1" -> 5 [] g = "JIMi1" -> 7 [] g = "ALIFu1" -> 5
                 [] g = "AINf1" -> 9 [] g = "NUNf1" -> -3 [] OTHER -> 2] ],
  [ inits  |-> <<"BEi1">>,
    isols  |-> <<"DALu1">>,
    finas  |-> <<"AINf1", "JIMf1", "BEf1", "NUNf1", "REf1">>,
    bariye |-> <<"BARI_YEf1">>,
    binned_medis |-> << [glyphs |-> {"BEm1"},  rise |-> 100],
                        [glyphs |-> {"JIMm1"}, rise |-> 200] >>,
    binned_finas |-> << [glyphs |-> {"AINf1", "JIMf1", "BEf1"}, rise |-> 100],
                        [glyphs |-> {"NUNf1"}, rise |-> 200],
                        [glyphs |-> {"REf1"}, rise |-> 300] >>,
    binned_finas_all |->
                     << [glyphs |-> {"AINf1", "JIMf1", "BEf1"}, rise |-> 100],
                        [glyphs |-> {"NUNf1"}, rise |-> 200],
                        [glyphs |-> {"REf1"}, rise |-> 300] >>,
    lsb |-> [g \in Range(GlyphNames) |->
               CASE g = "AINf1" -> 4 [] g = "JIMf1" -> -6 [] g = "BEf1" -> 8
                 [] g = "REf1" -> 0 [] g = "DALu1" -> 5 [] OTHER -> 2],
    rsb |-> [g \in Range(GlyphNames) |->
               CASE g = "BEi1" -> 5 [] g = "DALu1" -> -1 [] OTHER -> 3] ]
>>

\* The configurations a behaviour starts from: the font, the solver (seed; a
\* solver with fails = TRUE raises on one pair at height 300) and the order
\* in which Python iterates the set behind isols_finas.
Configs == {
  [font |-> Fonts[1], seed |-> 0, fails |-> FALSE, order |-> 1],
  [font |-> Fonts[1], seed |-> 3, fails |-> TRUE,  order |-> 2],
  [font |-> Fonts[2], seed |-> 1, fails |-> FALSE, order |-> 2],
  [font |-> Fonts[2], seed |-> 2, fails |-> TRUE,  order |-> 1] }

\* the arguments of the verb: <units> <percentage>%
ArgsSet == { <<50, 40>>, <<25, 40>>, <<50, 5>> }

\* the arguments of AtHeight: <units1>-<units2> <routine>
HeightRanges == { <<400, 600>>, <<-100, 100>>, <<0, 300>>, <<700, 1200>> }
RoutineNames == { "DotAvoidance", "Missing" }
\* the routines the feature file has defined before the verb runs
DefinedRoutines == { "DotAvoidance" }

\* the rises the harness calls generate_kern_table_for_rise with
TestRises == { 0, 100, 120, 200, 300, 399, 400, 500, 600, 700 }

VARIABLES
    cfg,                  \* the font, the solver and the set order (fixed)
    pc,                   \* where the program is
    run,                  \* verb runs started so far
    self,                 \* the verb object: distance_at_closest, maxtuck (as
                          \* the integer percentage), inits, isols, isols_finas
    binned,               \* action()'s locals binned_medis and binned_finas
    shelve,               \* the contents of kerncache.db: key -> value
    shelve_open,          \* whether the handle self.shelve is open
    shelve_at_start,      \* the contents of kerncache.db when it was opened
    kern_at_rise,         \* self.kern_at_rise: rise -> lookup object
    ink_to_ink_routines,  \* self.ink_to_ink_routines: rise -> lookup object
    objs,                 \* the routine objects created, by identity
    rules,                \* routine.rules of the NastaliqKerning routine
    loop,                 \* the enumeration loop: [i, t], t the next tuple
    build,                \* the table build in progress
    at_rules,             \* routine.rules of the AtHeight routine
    at_args,              \* the arguments of that AtHeight
    hist                  \* history: what was called, opened, returned

vars == << cfg, pc, run, self, binned, shelve, shelve_open, shelve_at_start,
           kern_at_rise, ink_to_ink_routines, objs, rules, loop, build,
           at_rules, at_args, hist >>

font == cfg.font

\* an empty dict
EmptyDict == <<>>

\* d[k] = v
Put(d, k, v) == (k :> v) @@ d

(***************************************************************************)
(* The classes NastaliqKerning.action reads (lines 117-136).               *)
(***************************************************************************)
Without(s, S) == SelectSeq(s, LAMBDA x : x \notin S)

\* sorted(): by name
Sorted(S) == SelectSeq(GlyphNames, LAMBDA g : g \in S)

\* list(set(self.isols + finas) | set(bariye)): the iteration order of a
\* Python set of strings changes from build to build; two orders are modelled.
SetOrder(S, order) == IF order = 1 THEN Sorted(S) ELSE Reverse(Sorted(S))

ReadClasses(f, order, d, percent) ==
    [ distance_at_closest |-> d,
      maxtuck |-> percent,
      inits |-> f.inits,
      isols |-> Without(f.isols, Range(f.bariye)),
      isols_finas |-> SetOrder((Range(f.isols) \cup Range(f.finas))
                               \cup Range(f.bariye), order) ]

NoSelf == [ distance_at_closest |-> 0, maxtuck |-> 0, inits |-> <<>>,
            isols |-> <<>>, isols_finas |-> <<>> ]

NoBinned == [ medis |-> <<>>, finas |-> <<>> ]

inits == self.inits

isols == self.isols

isols_finas == self.isols_finas

binned_medis == binned.medis

binned_finas == binned.finas

(***************************************************************************)
(* The solver, qalamTools.determinekern.determine_kern: a deterministic    *)
(* function of its arguments which may raise.                              *)
(***************************************************************************)
KernValues == <<-5, -15, -10, -11, -25, 0, 30, -44>>

determine_kern(glyph1, glyph2, targetdistance, height, tuck) ==
    KernValues[((Rank(glyph1) + 3 * Rank(glyph2) + (height \div 100)
                 + targetdistance + tuck + cfg.seed) % Len(KernValues)) + 1]

determine_kern_raises(glyph1, glyph2, targetdistance, height, tuck) ==
    cfg.fails /\ height = 300 /\ glyph1 = font.inits[1] /\ glyph2 = "BEf1"

(***************************************************************************)
(* determine_kern_cached.                                                  *)
(***************************************************************************)
\* A mutant of CacheKey: the height is left out of the key.
CacheKeyNoHeight(glyph1, glyph2, targetdistance, height, tuck) ==
    glyph1 \o "/" \o glyph2 \o "/" \o ToString(targetdistance)
           \o "/" \o StrTuck(tuck)

\* key = "/".join(str(x) for x in [glyph1, glyph2, targetdistance, height, maxtuck])
CacheKey(glyph1, glyph2, targetdistance, height, tuck) ==
    glyph1 \o "/" \o glyph2 \o "/" \o ToString(targetdistance)
           \o "/" \o ToString(height) \o "/" \o StrTuck(tuck)

\* the call when the key is not in the store: the solver is invoked, and its
\* result stored unless it raises
CacheMiss(store, key, raises, result) ==
    IF raises
    THEN [hit |-> FALSE, solved |-> TRUE, raised |-> TRUE,
          result |-> 0, store |-> store]
    ELSE [hit |-> FALSE, solved |-> TRUE, raised |-> FALSE,
          result |-> result, store |-> Put(store, key, result)]

\* the call on key: the stored value when there is one
CacheLookup(store, key, raises, result) ==
    IF key \in DOMAIN store
    THEN [hit |-> TRUE, solved |-> FALSE, raised |-> FALSE,
          result |-> store[key], store |-> store]
    ELSE CacheMiss(store, key, raises, result)

\* The outcome of one call: whether the key was in the store, whether the
\* solver was invoked, whether it raised, the value returned and the store
\* afterwards.
determine_kern_cached(store, glyph1, glyph2, targetdistance, height, tuck) ==
    CacheLookup(store,
                CacheKey(glyph1, glyph2, targetdistance, height, tuck),
                determine_kern_raises(glyph1, glyph2, targetdistance, height, tuck),
                determine_kern(glyph1, glyph2, targetdistance, height, tuck))

(***************************************************************************)
(* The enumeration: itertools.product over [finas] + [medis] * i.          *)
(***************************************************************************)
FirstTuple(i) == [k \in 1..(i + 1) |-> 1]

\* t with position k advanced and the positions after it back at the start
Bump(t, k) ==
    [j \in DOMAIN t |-> IF j < k THEN t[j] ELSE IF j = k THEN t[k] + 1 ELSE 1]

\* the positions of t that are not at their last bin
OpenPositions(t, nf, nm) ==
    {k \in DOMAIN t : t[k] < (IF k = 1 THEN nf ELSE nm)}

LastOf(S) == CHOOSE x \in S : \A y \in S : y <= x

\* A mutant of NextTuple: the first position runs fastest.
NextTupleFirstFastest(t, nf, nm) ==
    IF OpenPositions(t, nf, nm) = {} THEN <<>>
    ELSE [j \in DOMAIN t |->
            IF j < -LastOf({-k : k \in OpenPositions(t, nf, nm)}) THEN 1
            ELSE IF j = -LastOf({-k : k \in OpenPositions(t, nf, nm)})
            THEN t[j] + 1 ELSE t[j]]

\* the tuple after t in product order (the last position runs fastest), or
\* <<>> after the last one; nf and nm are the numbers of bins
NextTuple(t, nf, nm) ==
    IF OpenPositions(t, nf, nm) = {} THEN <<>>
    ELSE Bump(t, LastOf(OpenPositions(t, nf, nm)))

\* the loop position after l, nxt the next tuple of the same length if any
AdvanceTo(l, nxt) ==
    IF nxt # <<>> THEN [i |-> l.i, t |-> nxt]
    ELSE [i |-> l.i - 1, t |-> FirstTuple(l.i - 1)]

\* the loop position after tuple l.t of length l.i:
\* for i in range(maximum_word_length, -1, -1), product(...) within
Advance(l, nf, nm) == AdvanceTo(l, NextTuple(l.t, nf, nm))

\* postcontext_plus_rise: the bins the tuple t selects
TupleBins(bf, bm, t) ==
    [k \in DOMAIN t |-> IF k = 1 THEN bf[t[1]] ELSE bm[t[k]]]

BinRises(bins) == [k \in DOMAIN bins |-> bins[k].rise]

BinGlyphs(bins) == [k \in DOMAIN bins |-> bins[k].glyphs]

\* quantize(sum([x[1] for x in postcontext_plus_rise]), rise_quantization)
TupleRise(bf, bm, t) ==
    quantize(SeqSum(BinRises(TupleBins(bf, bm, t))), rise_quantization)

\* list(reversed([x[0] for x in postcontext_plus_rise]))
TupleContext(bf, bm, t) == Reverse(BinGlyphs(TupleBins(bf, bm, t)))

\* if word_tail_rise >= maximum_rise: word_tail_rise = maximum_rise
word_tail_rise(q) == IF q >= maximum_rise THEN maximum_rise ELSE q

Pop(s) == SubSeq(s, 1, Len(s) - 1)

\* A mutant of Popped: the final group is dropped at every length.
PoppedAlways(i, q, postcontext) ==
    IF q >= maximum_rise THEN Pop(postcontext) ELSE postcontext

\* postcontext.pop() when the rise is capped at the maximum length
Popped(i, q, postcontext) ==
    IF q >= maximum_rise /\ i = maximum_word_length
    THEN Pop(postcontext) ELSE postcontext

\* the context of tuple t at length i, q its quantized rise
Postcontext(i, t, q) ==
    Popped(i, q, TupleContext(binned_finas, binned_medis, t))

\* postcontext[-1] = g
SetLast(s, g) == Append(Pop(s), g)

\* fontFeatures.Chaining(target, postcontext=[self.inits] + postcontext,
\* lookups=lookups); src records the tuple the rule comes from
Chaining(postcontext, lookup, src) ==
    [ target |-> <<Range(isols_finas)>>,
      postcontext |-> <<Range(inits)>> \o postcontext,
      lookup |-> lookup, i |-> src.i, t |-> src.t, rise |-> src.rise ]

\* lines 230-240: the rule for BARI_YEf1
BariYeRule(postcontext, lookup, src) ==
    IF src.rise >= 400 /\ src.i > 4
    THEN <<Chaining(SetLast(postcontext, {"BARI_YEf1"}), lookup, src)>>
    ELSE <<>>

\* A mutant of BlockerRules: the second rule is limited to the blockers the
\* group held.
BlockerRulesOwn(postcontext, last, lookup, src) ==
    IF Len(postcontext) > 1
    THEN <<Chaining(SetLast(postcontext, last \ Range(blockers)), lookup, src),
           Chaining(SetLast(postcontext, last \cap Range(blockers)), lookup, src)>>
         \o BariYeRule(postcontext, lookup, src)
    ELSE <<Chaining(SetLast(postcontext, last \ Range(blockers)), lookup, src)>>
         \o BariYeRule(SetLast(postcontext, last \ Range(blockers)), lookup, src)

\* lines 206-228 when the last group holds a blocker: the rule for the group
\* without the blockers and, in a context of more than one group, the rule
\* for the blockers
BlockerRules(postcontext, last, lookup, src) ==
    IF Len(postcontext) > 1
    THEN <<Chaining(SetLast(postcontext, last \ Range(blockers)), lookup, src),
           Chaining(SetLast(postcontext, Range(blockers)), lookup, src)>>
         \o BariYeRule(postcontext, lookup, src)
    ELSE <<Chaining(SetLast(postcontext, last \ Range(blockers)), lookup, src)>>
         \o BariYeRule(SetLast(postcontext, last \ Range(blockers)), lookup, src)

\* lines 198-240 for one context
RulesFor(postcontext, last, lookup, src) ==
    IF \E b \in Range(blockers) : b \in last
    THEN BlockerRules(postcontext, last, lookup, src)
    ELSE <<Chaining(postcontext, lookup, src)>>
         \o BariYeRule(postcontext, lookup, src)

RulesOf(postcontext, lookup, src) ==
    RulesFor(postcontext, postcontext[Len(postcontext)], lookup, src)

\* the rules one tuple appends
EmitRules(i, t, q, lookup) ==
    RulesOf(Postcontext(i, t, q), lookup,
            [i |-> i, t |-> t, rise |-> word_tail_rise(q)])

\* the last rule: isolates against each other, at rise 0
Baseline(lookup) ==
    [ target |-> <<Range(isols_finas)>>, postcontext |-> <<Range(isols)>>,
      lookup |-> lookup, i |-> -1, t |-> <<>>, rise |-> 0 ]

(***************************************************************************)
(* ink_to_ink_at.                                                          *)
(***************************************************************************)
\* ten times r_distance: distance_at_closest, tapered by 0.5 at rise 100 and
\* by 0.2 at rises 200 and 300 (the products are exact in binary floating
\* point for the distances of ArgsSet)
r_distance10(r) ==
    IF r = 100 THEN 5 * self.distance_at_closest
    ELSE IF r = 200 \/ r = 300 THEN 2 * self.distance_at_closest
    ELSE 10 * self.distance_at_closest

\* A mutant of ink_dist: a distance is rounded down, not towards 0.
ink_dist_floor(r, right, left) ==
    (r_distance10(r)
       - 10 * (Max(font.rsb[left], 0) + Max(font.lsb[right], 0))) \div 10

\* right_of_left = max(rsb of left, 0); left_of_right = max(lsb of right, 0);
\* dist = int(r_distance - (right_of_left + left_of_right))
ink_dist(r, right, left) ==
    PyInt10(r_distance10(r)
            - 10 * (Max(font.rsb[left], 0) + Max(font.lsb[right], 0)))

\* every (right, left) of two nested loops, right the outer one
Pairs(rights, lefts) ==
    [k \in 1..(Len(rights) * Len(lefts)) |->
       <<rights[((k - 1) \div Len(lefts)) + 1], lefts[((k - 1) % Len(lefts)) + 1]>>]

\* for right in self.isols_finas: for left in self.inits + self.isols
InkPairs == Pairs(isols_finas, inits \o isols)

InkRules(r, kept) ==
    [k \in DOMAIN kept |->
       [glyphs |-> kept[k], xAdvance |-> ink_dist(r, kept[k][1], kept[k][2])]]

\* the routine ink_to_ink_<r>: one Positioning per pair whose dist is not 0
ink_to_ink(r) ==
    [ kind |-> "ink", name |-> "ink_to_ink_" \o ToString(r), r |-> r,
      flags |-> 12,
      rules |-> InkRules(r, SelectSeq(InkPairs,
                            LAMBDA p : ink_dist(r, p[1], p[2]) # 0)) ]

\* if r in self.ink_to_ink_routines
InkCached(r) == r \in DOMAIN ink_to_ink_routines

(***************************************************************************)
(* generate_kern_table_for_rise.                                           *)
(***************************************************************************)
\* A mutant of TableCached: the memo is never consulted.
TableNeverCached(r) == FALSE

\* if r in self.kern_at_rise
TableCached(r) == r \in DOMAIN kern_at_rise

\* the left glyphs: the initials, and at the baseline the isolates too
ends(r) == IF r > 0 THEN inits ELSE inits \o isols

\* for end_of_previous_word in self.isols_finas: for initial in sorted(ends)
KernPairs(r) == Pairs(isols_finas, Sorted(Range(ends(r))))

\* A mutant of RecordsKern: a kern of exactly -10 is recorded too.
RecordsKernFromTen(kern) == kern <= -10

\* if kern < -10
RecordsKern(kern) == kern < -10

\* A mutant of IsDirect: the threshold is exclusive.
IsDirectAbove(r) == r > 400

\* if r >= 400
IsDirect(r) == r >= 400

KernRules(kerntable, kept) ==
    [k \in DOMAIN kept |-> [glyphs |-> kept[k], xAdvance |-> kerntable[kept[k]]]]

\* the routine kern_at_<r> built from kerntable
kernroutine(r, kerntable) ==
    [ kind |-> "kern", name |-> "kern_at_" \o ToString(r), r |-> r,
      flags |-> 12, markFilteringSet |-> "all_above_marks",
      rules |-> KernRules(kerntable, SelectSeq(KernPairs(r),
                                       LAMBDA p : p \in DOMAIN kerntable)),
      table |-> kerntable ]

\* the two rules of dispatch_<r>: the branch over a space first
DispatchRules(rights, lefts, ink, kern) ==
    << [input |-> <<rights, {"space.urdu"}, lefts>>, lookup |-> ink],
       [input |-> <<rights, lefts>>, lookup |-> kern] >>

\* the routine dispatch_<r>
dispatch(r, ink, kern) ==
    [ kind |-> "dispatch", name |-> "dispatch_" \o ToString(r), r |-> r,
      flags |-> 8,
      rules |-> DispatchRules(Range(isols_finas), Range(ends(r)), ink, kern) ]

\* lines 376-390: the dispatch routine and the ink-to-ink routine behind it;
\* kid names the kern routine, the last of withkern
WithDispatch(r, kid, withkern) ==
    IF InkCached(r)
    THEN [ objs |-> Append(withkern, dispatch(r, ink_to_ink_routines[r], kid)),
           ink |-> ink_to_ink_routines, newink |-> FALSE, ret |-> kid + 1 ]
    ELSE [ objs |-> withkern \o <<ink_to_ink(r), dispatch(r, kid + 1, kid)>>,
           ink |-> Put(ink_to_ink_routines, r, kid + 1), newink |-> TRUE,
           ret |-> kid + 2 ]

TableEndOf(r, withkern) ==
    IF IsDirect(r)
    THEN [ objs |-> withkern, ink |-> ink_to_ink_routines, newink |-> FALSE,
           ret |-> Len(withkern) ]
    ELSE WithDispatch(r, Len(withkern), withkern)

\* What the end of generate_kern_table_for_rise (lines 343-390) does once the
\* pair loop is over: the objects created, the memo of ink_to_ink_at and the
\* lookup returned.  Objects are named by their position in objs.
TableEnd == TableEndOf(build.r, Append(objs, kernroutine(build.r, build.kerntable)))

(***************************************************************************)
(* The history recorded for the properties.                                *)
(***************************************************************************)
NoHist ==
    [ calls |-> EmptyDict, last_call |-> <<>>, failures |-> 0,
      opens |-> 0, closes |-> 0, builds |-> EmptyDict, inkbuilds |-> EmptyDict,
      last |-> <<>>, ret |-> <<>>, tests |-> 0 ]

Count(d, k) == IF k \in DOMAIN d THEN d[k] ELSE 0

NoCalls == [n |-> 0, k |-> 0, vals |-> {}]

HistCallWith(h, a, c, old) ==
    [h EXCEPT
       !.calls = Put(h.calls, a,
                     [n |-> old.n + (IF c.solved THEN 1 ELSE 0), k |-> old.k + 1,
                      vals |-> IF c.raised THEN old.vals
                               ELSE old.vals \cup {c.result}]),
       !.last_call = << [args |-> a, seen |-> old.k > 0,
                         vals |-> old.vals, hit |-> c.hit,
                         solved |-> c.solved, raised |-> c.raised,
                         result |-> c.result] >>,
       !.failures = h.failures + (IF c.raised THEN 1 ELSE 0)]

\* the history after a call of determine_kern_cached with arguments a and
\* outcome c
HistCall(h, a, c) ==
    HistCallWith(h, a, c, IF a \in DOMAIN h.calls THEN h.calls[a] ELSE NoCalls)

(***************************************************************************)
(* AtHeight.action.                                                        *)
(***************************************************************************)
\* fontFeatures.Chaining(target, postcontext=postcontext, lookups=lookups)
\* with target = [self.isols_finas, self.inits], isols_finas = isols + finas
AtChaining(postcontext, target_routine, i, t, rise) ==
    [ target |-> <<Range(font.isols \o font.finas), Range(font.inits)>>,
      postcontext |-> postcontext,
      lookup |-> target_routine, i |-> i, t |-> t, rise |-> rise ]

RECURSIVE Pow(_, _)
Pow(b, e) == IF e = 0 THEN 1 ELSE b * Pow(b, e - 1)

\* the k-th tuple of product(finas, medis * i), counting from 1
TupleAt(i, k, nf, nm) ==
    [j \in 1..(i + 1) |-> IF j = 1 THEN ((k - 1) \div Pow(nm, i)) + 1
                          ELSE (((k - 1) \div Pow(nm, i + 1 - j)) % nm) + 1]

\* A mutant of AtHeightRule: the rise is capped, negative rises are skipped
\* and the final group is dropped as NastaliqKerning does.
AtHeightRuleClamped(i, t, word_tail, postcontext, lo, hi, target_routine) ==
    IF word_tail < 0
       \/ ~(word_tail_rise(word_tail) >= lo /\ word_tail_rise(word_tail) <= hi)
    THEN <<>>
    ELSE <<AtChaining(Popped(i, word_tail, postcontext), target_routine, i, t,
                      word_tail_rise(word_tail))>>

\* lines 424-435: no rule, or one
AtHeightRule(i, t, word_tail, postcontext, lo, hi, target_routine) ==
    IF ~(word_tail >= lo /\ word_tail <= hi) THEN <<>>
    ELSE <<AtChaining(postcontext, target_routine, i, t, word_tail)>>

\* the body of the loop for one tuple (lines 420-435)
AtHeightStep(i, t, lo, hi, target_routine) ==
    AtHeightRule(i, t, TupleRise(font.binned_finas_all, font.binned_medis, t),
                 TupleContext(font.binned_finas_all, font.binned_medis, t),
                 lo, hi, target_routine)

Flatten(steps) == [k \in DOMAIN steps |-> steps[k][1]]

\* the rules the tuples of length i append, in product order
AtHeightLength(i, nf, nm, lo, hi, target_routine) ==
    Flatten(SelectSeq([k \in 1..(nf * Pow(nm, i)) |->
                         AtHeightStep(i, TupleAt(i, k, nf, nm), lo, hi,
                                      target_routine)],
                      LAMBDA s : s # <<>>))

\* for i in range(maximum_word_length, -1, -1)
RECURSIVE AtHeightLoop(_, _, _, _)
AtHeightLoop(i, lo, hi, target_routine) ==
    IF i < 0 THEN <<>>
    ELSE AtHeightLength(i, Len(font.binned_finas_all), Len(font.binned_medis),
                        lo, hi, target_routine)
         \o AtHeightLoop(i - 1, lo, hi, target_routine)

(***************************************************************************)
(* The state machine.                                                      *)
(***************************************************************************)
NoBuild == [ r |-> 0, arg |-> 0, pos |-> 0, kerntable |-> EmptyDict,
             caller |-> "none" ]

NoLoop == [ i |-> -1, t |-> <<>> ]

Init ==
    /\ cfg \in Configs
    /\ pc = "idle"
    /\ run = 0
    /\ self = NoSelf
    /\ binned = NoBinned
    /\ shelve = EmptyDict
    /\ shelve_open = FALSE
    /\ shelve_at_start = EmptyDict
    /\ kern_at_rise = EmptyDict
    /\ ink_to_ink_routines = EmptyDict
    /\ objs = <<>>
    /\ rules = <<>>
    /\ loop = NoLoop
    /\ build = NoBuild
    /\ at_rules = <<>>
    /\ at_args = <<>>
    /\ hist = NoHist

\* NastaliqKerning.action, lines 107-147: the parameters are read, the store
\* is opened, the classes are read and binned, the memo tables and the
\* routine are created
Open(d, percent, to) ==
    /\ pc = "idle"
    /\ run < MaxRuns
    /\ pc' = to
    /\ run' = run + 1
    /\ self' = ReadClasses(font, cfg.order, d, percent)
    /\ binned' = [medis |-> font.binned_medis, finas |-> font.binned_finas]
    /\ shelve_open' = TRUE
    /\ shelve_at_start' = shelve
    /\ kern_at_rise' = EmptyDict
    /\ ink_to_ink_routines' = EmptyDict
    /\ objs' = <<>>
    /\ rules' = <<>>
    /\ loop' = [i |-> maximum_word_length, t |-> FirstTuple(maximum_word_length)]
    /\ hist' = [hist EXCEPT !.opens = 1, !.closes = 0, !.builds = EmptyDict,
                            !.inkbuilds = EmptyDict, !.last = <<>>,
                            !.ret = <<>>, !.last_call = <<>>, !.tests = 0]
    /\ UNCHANGED <<cfg, shelve, build, at_rules, at_args>>

StartRun == \E a \in ArgsSet : Open(a[1], a[2], "loop")

\* the call self.generate_kern_table_for_rise(r) up to the pair loop, when
\* the table is not in the memo
StartBuild(r, caller) ==
    /\ pc' = "table"
    /\ build' = [ r |-> quantize(r, rise_quantization), arg |-> r, pos |-> 1,
                  kerntable |-> EmptyDict, caller |-> caller ]

StepHist(h, step, requested, n, done) ==
    [h EXCEPT !.last = << [step |-> step, requested |-> requested,
                           n |-> n, done |-> done] >>]

\* the tuple's rules are appended: the table was in the memo
LoopEmit(step, lookup, new, nxt) ==
    /\ rules' = rules \o new
    /\ loop' = nxt
    /\ hist' = [StepHist(hist, step, TRUE, Len(new), TRUE) EXCEPT
                  !.ret = << [arg |-> step.rise, obj |-> lookup] >>]
    /\ UNCHANGED <<pc, build>>

\* lines 175-240 for the tuple of step, q its quantized rise
LoopBody(step, nxt) ==
    IF step.q < 0
    THEN /\ loop' = nxt
         /\ hist' = StepHist(hist, step, FALSE, 0, TRUE)
         /\ UNCHANGED <<pc, build, rules>>
    ELSE IF TableCached(step.rise)
    THEN LoopEmit(step, kern_at_rise[step.rise],
                  EmitRules(step.i, step.t, step.q, kern_at_rise[step.rise]),
                  nxt)
    ELSE /\ StartBuild(step.rise, "loop")
         /\ hist' = [StepHist(hist, step, TRUE, 0, FALSE) EXCEPT !.ret = <<>>]
         /\ UNCHANGED <<loop, rules>>

StepOf(i, t, q) == [i |-> i, t |-> t, q |-> q, rise |-> word_tail_rise(q)]

\* one tuple of the loop of lines 167-240
LoopStep ==
    /\ pc = "loop"
    /\ loop.i >= 0
    /\ LoopBody(StepOf(loop.i, loop.t,
                       TupleRise(binned_finas, binned_medis, loop.t)),
                Advance(loop, Len(binned_finas), Len(binned_medis)))
    /\ UNCHANGED <<cfg, run, self, binned, shelve, shelve_open,
                   shelve_at_start, kern_at_rise, ink_to_ink_routines, objs,
                   at_rules, at_args>>

\* lines 243-256 after the loop: the isolates' rule, and the store is closed
Final ==
    /\ pc = "loop"
    /\ loop.i < 0
    /\ IF TableCached(0)
       THEN /\ rules' = Append(rules, Baseline(kern_at_rise[0]))
            /\ shelve_open' = FALSE
            /\ pc' = "done"
            /\ hist' = [hist EXCEPT !.closes = @ + 1, !.last = <<>>,
                          !.ret = << [arg |-> 0, obj |-> kern_at_rise[0]] >>]
            /\ UNCHANGED build
       ELSE /\ StartBuild(0, "final")
            /\ hist' = [hist EXCEPT !.last = <<>>, !.ret = <<>>]
            /\ UNCHANGED <<rules, shelve_open>>
    /\ UNCHANGED <<cfg, run, self, binned, shelve, shelve_at_start,
                   kern_at_rise, ink_to_ink_routines, objs, loop, at_rules,
                   at_args>>

\* lines 337-341 and the way out of line 329 when the solver raises
PairDone(pair, c) ==
    IF c.raised
    THEN /\ pc' = "failed"
         /\ UNCHANGED build
    ELSE /\ pc' = pc
         /\ build' = [build EXCEPT
              !.pos = @ + 1,
              !.kerntable =
                 IF RecordsKern(c.result)
                 THEN Put(@, pair, quantize(c.result, kern_quantization))
                 ELSE @]

PairCall(pair, a, c) ==
    /\ shelve' = c.store
    /\ hist' = HistCall(hist, a, c)
    /\ PairDone(pair, c)

\* the call of lines 329-336 for pair = (end_of_previous_word, initial)
PairStep(pair, height) ==
    PairCall(pair,
             <<pair[2], pair[1], self.distance_at_closest, height, self.maxtuck>>,
             determine_kern_cached(shelve, pair[2], pair[1],
                                   self.distance_at_closest, height,
                                   self.maxtuck))

\* one pass of the pair loop of lines 324-341: one call of
\* determine_kern_cached; an exception of the solver leaves action()
KernPair ==
    /\ pc = "table"
    /\ build.pos <= Len(KernPairs(build.r))
    /\ PairStep(KernPairs(build.r)[build.pos], build.r)
    /\ UNCHANGED <<cfg, run, self, binned, shelve_open, shelve_at_start,
                   kern_at_rise, ink_to_ink_routines, objs, rules, loop,
                   at_rules, at_args>>

\* the caller's statements after generate_kern_table_for_rise returns
AfterTable(caller, lookup) ==
    IF caller = "loop"
    THEN EmitRules(loop.i, loop.t,
                   TupleRise(binned_finas, binned_medis, loop.t), lookup)
    ELSE IF caller = "final" THEN <<Baseline(lookup)>>
    ELSE <<>>

TableHist(h, r, arg, caller, end, n) ==
    [h EXCEPT
       !.builds = Put(@, r, Count(@, r) + 1),
       !.inkbuilds = IF end.newink THEN Put(@, r, Count(@, r) + 1) ELSE @,
       !.closes = @ + (IF caller = "final" THEN 1 ELSE 0),
       !.last = IF caller = "loop"
                THEN << [h.last[1] EXCEPT !.n = n, !.done = TRUE] >>
                ELSE @,
       !.ret = << [arg |-> arg, obj |-> end.ret] >>]

TableReturn(caller, end, new) ==
    /\ objs' = end.objs
    /\ ink_to_ink_routines' = end.ink
    /\ kern_at_rise' = Put(kern_at_rise, build.r, end.ret)
    /\ rules' = rules \o new
    /\ loop' = IF caller = "loop"
               THEN Advance(loop, Len(binned_finas), Len(binned_medis))
               ELSE loop
    /\ pc' = IF caller = "loop" THEN "loop"
             ELSE IF caller = "final" THEN "done" ELSE "test"
    /\ shelve_open' = IF caller = "final" THEN FALSE ELSE shelve_open
    /\ hist' = TableHist(hist, build.r, build.arg, caller, end, Len(new))

TableFinish(caller, end) == TableReturn(caller, end, AfterTable(caller, end.ret))

\* lines 343-390, and the caller's statements after the call returns
FinishTable ==
    /\ pc = "table"
    /\ build.pos > Len(KernPairs(build.r))
    /\ TableFinish(build.caller, TableEnd)
    /\ build' = NoBuild
    /\ UNCHANGED <<cfg, run, self, binned, shelve, shelve_at_start, at_rules,
                   at_args>>

\* AtHeight.action: routineNamed raises when the routine does not exist
AtHeight ==
    /\ pc = "idle"
    /\ \E hr \in HeightRanges, name \in RoutineNames :
          /\ at_args' = <<hr[1], hr[2], name>>
          /\ IF name \notin DefinedRoutines
             THEN /\ pc' = "at_failed"
                  /\ at_rules' = <<>>
             ELSE /\ pc' = "at_done"
                  /\ at_rules' = AtHeightLoop(maximum_word_length,
                                              hr[1], hr[2], name)
    /\ UNCHANGED <<cfg, run, self, binned, shelve, shelve_open,
                   shelve_at_start, kern_at_rise, ink_to_ink_routines, objs,
                   rules, loop, build, hist>>

\* The verb has returned or raised and the build goes on to the next verb (or
\* is started again).  After an exception the handle was never closed: what
\* of this run's writes reached kerncache.db is not determined, and the two
\* extremes (all of them, none of them) are modelled.
NextVerb ==
    /\ pc \in {"done", "failed", "at_done", "at_failed"}
    /\ pc' = "idle"
    /\ shelve' \in (IF pc = "failed" THEN {shelve, shelve_at_start} ELSE {shelve})
    /\ shelve_open' = FALSE
    /\ shelve_at_start' = EmptyDict
    /\ self' = NoSelf
    /\ binned' = NoBinned
    /\ kern_at_rise' = EmptyDict
    /\ ink_to_ink_routines' = EmptyDict
    /\ objs' = <<>>
    /\ rules' = <<>>
    /\ loop' = NoLoop
    /\ build' = NoBuild
    /\ at_rules' = <<>>
    /\ at_args' = <<>>
    /\ hist' = [hist EXCEPT !.opens = 0, !.closes = 0, !.builds = EmptyDict,
                            !.inkbuilds = EmptyDict, !.last = <<>>,
                            !.ret = <<>>, !.last_call = <<>>]
    /\ UNCHANGED <<cfg, run>>

Next ==
    \/ StartRun
    \/ LoopStep
    \/ KernPair
    \/ FinishTable
    \/ Final
    \/ AtHeight
    \/ NextVerb

Spec == Init /\ [][Next]_vars

(***************************************************************************)
(* The harness for generate_kern_table_for_rise: the verb's state is set   *)
(* up as action() does and the method is called directly.                  *)
(***************************************************************************)
StartTest == \E a \in ArgsSet : Open(a[1], a[2], "test")

TestCall ==
    /\ pc = "test"
    /\ hist.tests < MaxTestCalls
    /\ \E r \in TestRises :
          IF TableCached(r)
          THEN /\ hist' = [hist EXCEPT !.tests = @ + 1,
                             !.ret = << [arg |-> r, obj |-> kern_at_rise[r]] >>]
               /\ UNCHANGED <<pc, build>>
          ELSE /\ StartBuild(r, "test")
               /\ hist' = [hist EXCEPT !.tests = @ + 1, !.ret = <<>>]
    /\ UNCHANGED <<cfg, run, self, binned, shelve, shelve_open,
                   shelve_at_start, kern_at_rise, ink_to_ink_routines, objs,
                   rules, loop, at_rules, at_args>>

NextTable ==
    \/ StartTest
    \/ TestCall
    \/ KernPair
    \/ FinishTable

SpecTable == Init /\ [][NextTable]_vars

(***************************************************************************)
(* Helpers of the properties.                                              *)
(***************************************************************************)
LastCall == hist.last_call[1]

LastStep == hist.last[1]

LastRet == hist.ret[1]

\* the rules the last tuple of the loop appended
LastRules == SubSeq(rules, Len(rules) - LastStep.n + 1, Len(rules))

Innermost(rule) == rule.postcontext[Len(rule.postcontext)]

\* s comes before t, or is t, in the order of itertools.product
LexLeq(s, t) ==
    \/ s = t
    \/ \E k \in DOMAIN s : /\ s[k] < t[k]
                           /\ \A j \in 1..(k - 1) : s[j] = t[j]

\* the sum of the representative rises of the bins tuple t selects
RawRise(bf, bm, t) ==
    bf[t[1]].rise + SeqSum([k \in 1..(Len(t) - 1) |-> bm[t[k + 1]].rise])

\* the rules that come from the enumeration loop (not the isolates' rule)
LoopRules == {k \in DOMAIN rules : rules[k].i >= 0}

KernObjects == {k \in DOMAIN objs : objs[k].kind = "kern"}

InkObjects == {k \in DOMAIN objs : objs[k].kind = "ink"}

AllTuples(i, nf, nm) == {TupleAt(i, k, nf, nm) : k \in 1..(nf * Pow(nm, i))}

(***************************************************************************)
(* C1.  Kern cache.                                                        *)
(***************************************************************************)
\* C1: a call of determine_kern_cached whose key (left glyph, right glyph,
\* target closeness, height, tolerance) was seen before, in this run or in
\* an earlier completed run, returns the stored value and does not invoke
\* the solver; a call on a new key invokes the solver once and stores the
\* result; so as long as every run has completed the solver has been invoked
\* at most once per key, and all calls on a key returned the same value.
C1_KernCacheOncePerKey ==
    /\ hist.last_call # <<>> =>
         /\ (LastCall.seen /\ hist.failures = 0) =>
               /\ LastCall.hit
               /\ ~LastCall.solved
               /\ LastCall.vals = {LastCall.result}
         /\ ~LastCall.seen =>
               /\ LastCall.solved
               /\ ~LastCall.hit
               /\ ~LastCall.raised =>
                    LET key == CacheKey(LastCall.args[1], LastCall.args[2],
                                        LastCall.args[3], LastCall.args[4],
                                        LastCall.args[5])
                    IN  key \in DOMAIN shelve /\ shelve[key] = LastCall.result
    /\ hist.failures = 0 =>
         \A a \in DOMAIN hist.calls :
            /\ hist.calls[a].n <= 1
            /\ Cardinality(hist.calls[a].vals) <= 1

\* a second run with the arguments of the first finds a key in the store
C1_Witness ==
    /\ run = 2
    /\ hist.failures = 0
    /\ hist.last_call # <<>>
    /\ LastCall.seen
    /\ LastCall.hit
    /\ LastCall.result = -15

(***************************************************************************)
(* C2.  Table sharing.                                                     *)
(***************************************************************************)
\* C2: in one run of NastaliqKerning.action all rules of one quantized rise,
\* the isolates' rule at rise 0 included, reference one lookup object, the
\* one generate_kern_table_for_rise returned for that rise, and the table of
\* a rise is built at most once.
C2_TableSharedPerRise ==
    /\ \A r \in {rules[k].rise : k \in DOMAIN rules} :
          /\ Cardinality({rules[k].lookup : k \in {j \in DOMAIN rules :
                                                     rules[j].rise = r}}) = 1
          /\ r \in DOMAIN kern_at_rise
          /\ \A k \in DOMAIN rules :
                rules[k].rise = r => rules[k].lookup = kern_at_rise[r]
    /\ \A r \in DOMAIN hist.builds : hist.builds[r] <= 1
    /\ \A r \in DOMAIN kern_at_rise : Count(hist.builds, r) = 1

\* a finished run in which the isolates' rule shares its table with rules of
\* the loop
C2_Witness ==
    /\ pc = "done"
    /\ \E k \in LoopRules : rules[k].rise = 0
    /\ rules[Len(rules)].i = -1
    /\ Cardinality({rules[k].rise : k \in DOMAIN rules}) = 7

(***************************************************************************)
(* C3.  Threshold dispatch.                                                *)
(***************************************************************************)
\* C3 as stated: generate_kern_table_for_rise(r) returns the kern table
\* directly when r >= 400 and the two-branch dispatch routine when r < 400,
\* 700 being treated as 600.
C3_Original ==
    (hist.ret # <<>> /\ LastRet.arg # 120) =>
       /\ LastRet.arg >= 400 => objs[LastRet.obj].kind = "kern"
       /\ LastRet.arg < 400 => objs[LastRet.obj].kind = "dispatch"
       /\ LastRet.arg = 700 => objs[LastRet.obj].r = 600

\* C3 amended: the decision is taken on r quantized to the step 100: the
\* kern table routine itself is returned for r in {399, 400, 500, 600, 700}
\* (399 becomes 400; 700 is not capped here and gets the table of height
\* 700), and for r in {0, 100, 200, 300} a dispatch routine of two rules:
\* first the rule over a space, to the ink-to-ink routine of r, then the
\* rule to the kern table of r.
C3_ThresholdOnQuantized ==
    hist.ret # <<>> =>
       LET o == objs[LastRet.obj]
           height == CASE LastRet.arg = 399 -> 400
                       [] LastRet.arg = 120 -> 100
                       [] OTHER -> LastRet.arg
       IN  /\ o.r = height
           /\ LastRet.arg \in {399, 400, 500, 600, 700} => o.kind = "kern"
           /\ LastRet.arg \in {0, 100, 120, 200, 300} =>
                /\ o.kind = "dispatch"
                /\ Len(o.rules) = 2
                /\ Len(o.rules[1].input) = 3
                /\ o.rules[1].input[2] = {"space.urdu"}
                /\ objs[o.rules[1].lookup].kind = "ink"
                /\ objs[o.rules[1].lookup].r = height
                /\ Len(o.rules[2].input) = 2
                /\ objs[o.rules[2].lookup].kind = "kern"
                /\ objs[o.rules[2].lookup].r = height

\* the call with 399 has returned a kern table, that of height 400
C3_Witness ==
    /\ hist.ret # <<>>
    /\ LastRet.arg = 399
    /\ objs[LastRet.obj].kind = "kern"
    /\ objs[LastRet.obj].r = 400

(***************************************************************************)
(* C4.  Emission order.                                                    *)
(***************************************************************************)
\* C4 as stated: along the rules of the loop the length i never increases,
\* the tuples of one length come in product order, and the number of groups
\* of the context never increases.
C4_Original ==
    \A k \in 1..(Len(rules) - 1) :
       (rules[k].i >= 0 /\ rules[k + 1].i >= 0) =>
          /\ rules[k + 1].i <= rules[k].i
          /\ rules[k + 1].i = rules[k].i => LexLeq(rules[k].t, rules[k + 1].t)
          /\ Len(rules[k + 1].postcontext) <= Len(rules[k].postcontext)

\* C4 amended: along the rules of the loop the length i never increases and
\* the tuples of one length come in product order; a rule of length i has
\* i + 2 groups in its context (the initials, i medial groups, the final
\* group), except that a rule of the maximum length whose rise is capped has
\* one less.  So the number of groups never increases from one length to
\* the next, but inside the maximum length capped rules (6 groups) and
\* uncapped rules (7 groups) come mixed, in product order.
C4_OrderByLength ==
    /\ \A k \in DOMAIN rules :
          rules[k].i >= 0 =>
             Len(rules[k].postcontext) =
                IF rules[k].i = maximum_word_length
                   /\ rules[k].rise = maximum_rise
                THEN rules[k].i + 1 ELSE rules[k].i + 2
    /\ \A k \in 1..(Len(rules) - 1) :
          (rules[k].i >= 0 /\ rules[k + 1].i >= 0) =>
             /\ rules[k + 1].i <= rules[k].i
             /\ rules[k + 1].i = rules[k].i =>
                   LexLeq(rules[k].t, rules[k + 1].t)
             /\ rules[k + 1].i < rules[k].i =>
                   Len(rules[k + 1].postcontext) <= Len(rules[k].postcontext)

\* a rule of 7 groups follows a rule of 6 groups, and shorter lengths follow
C4_Witness ==
    /\ pc = "done"
    /\ \E k \in 1..(Len(rules) - 1) :
          /\ rules[k + 1].i >= 0
          /\ Len(rules[k].postcontext) = 6
          /\ Len(rules[k + 1].postcontext) = 7
    /\ \E k \in LoopRules : rules[k].i = 0

(***************************************************************************)
(* C5.  The store is closed on every exit path.                            *)
(***************************************************************************)
\* C5: when a run of NastaliqKerning.action has ended, by returning or by an
\* exception, the store has been opened once and closed once and is not
\* open.
C5_ClosedOnEveryExit ==
    pc \in {"done", "failed"} =>
       /\ ~shelve_open
       /\ hist.opens = 1
       /\ hist.closes = 1

(***************************************************************************)
(* C6.  Recording threshold.                                               *)
(***************************************************************************)
\* the left glyphs of the table of rise r
LeftGlyphs(r) == IF r > 0 THEN Range(inits) ELSE Range(inits) \cup Range(isols)

\* what the solver returns for the pair at the height of kern table o
Solved(o, right, left) ==
    determine_kern(left, right, self.distance_at_closest, o.r, self.maxtuck)

\* C6: the table generate_kern_table_for_rise builds for a rise has an entry
\* for a pair (right glyph of the finals and isolates, left glyph of the
\* candidates of the rise) exactly when the solver's result for the pair is
\* less than -10; the entry is a multiple of 10 nearest to the result, and
\* the routine has one positioning rule per entry; a result of -5 gives no
\* entry, a result of -15 gives one.
C6_RecordingThreshold ==
    \A k \in KernObjects :
       \A right \in Range(isols_finas) :
          \A left \in LeftGlyphs(objs[k].r) :
             LET kern == Solved(objs[k], right, left)
                 has == <<right, left>> \in DOMAIN objs[k].table
             IN  /\ has <=> kern < -10
                 /\ kern = -5 => ~has
                 /\ kern = -15 => has
                 /\ has =>
                      /\ objs[k].table[<<right, left>>] % 10 = 0
                      /\ objs[k].table[<<right, left>>] - kern \in -5..5
                      /\ \E j \in DOMAIN objs[k].rules :
                            /\ objs[k].rules[j].glyphs = <<right, left>>
                            /\ objs[k].rules[j].xAdvance =
                                  objs[k].table[<<right, left>>]
                 /\ ~has =>
                      \A j \in DOMAIN objs[k].rules :
                         objs[k].rules[j].glyphs # <<right, left>>

\* a table with a pair of result -5 and no entry, a pair of result -15 and
\* the entry -20, and a pair of result -10 and no entry
C6_Witness ==
    \E k \in KernObjects :
       /\ \E right \in Range(isols_finas), left \in LeftGlyphs(objs[k].r) :
             /\ Solved(objs[k], right, left) = -5
             /\ <<right, left>> \notin DOMAIN objs[k].table
       /\ \E right \in Range(isols_finas), left \in LeftGlyphs(objs[k].r) :
             /\ Solved(objs[k], right, left) = -15
             /\ <<right, left>> \in DOMAIN objs[k].table
             /\ objs[k].table[<<right, left>>] = -20
       /\ \E right \in Range(isols_finas), left \in LeftGlyphs(objs[k].r) :
             /\ Solved(objs[k], right, left) = -10
             /\ <<right, left>> \notin DOMAIN objs[k].table

(***************************************************************************)
(* C7.  Tall clamp.                                                        *)
(***************************************************************************)
\* the loop has finished the body for a tuple
StepDone == hist.last # <<>> /\ LastStep.done

\* the tuple of the last step, its length and its quantized raw sum
StepT == LastStep.step.t

StepI == LastStep.step.i

StepQ == quantize(RawRise(binned_finas, binned_medis, StepT), rise_quantization)

\* the group of the final bin of the tuple
FinalGroup == binned_finas[StepT[1]].glyphs

\* C7: a tuple whose summed rise quantizes to 600 or more gets its rules
\* against the table of rise 600 exactly; at the maximum length the context
\* is the initials and the medial groups, without the final bin; at every
\* shorter length the final bin stays (less the blockers).  A tuple whose
\* quantized sum is negative appends no rule and asks for no table.
C7_TallClamp ==
    /\ StepDone =>
         /\ StepQ >= maximum_rise =>
              /\ LastStep.n >= 1
              /\ \A j \in 1..LastStep.n :
                    /\ LastRules[j].rise = 600
                    /\ LastRules[j].lookup = kern_at_rise[600]
                    /\ objs[LastRules[j].lookup].name = "kern_at_600"
                    /\ Len(LastRules[j].postcontext) =
                          IF StepI = maximum_word_length
                          THEN StepI + 1 ELSE StepI + 2
                    /\ LastRules[j].postcontext[1] = Range(inits)
              /\ \A m \in 1..StepI :
                    LastRules[1].postcontext[m + 1] =
                       binned_medis[StepT[StepI + 2 - m]].glyphs
              /\ StepI < maximum_word_length =>
                    Innermost(LastRules[1]) = FinalGroup \ Range(blockers)
         /\ StepQ < 0 =>
              /\ LastStep.n = 0
              /\ ~LastStep.requested
              /\ pc = "loop"
              /\ \A k \in DOMAIN rules :
                    ~(rules[k].i = StepI /\ rules[k].t = StepT)
    /\ \A r \in DOMAIN kern_at_rise : r >= 0 /\ r <= maximum_rise
    /\ \A k \in DOMAIN rules : rules[k].rise >= 0 /\ rules[k].rise <= maximum_rise

\* a finished run with a rule of a raw sum of 850 at the maximum length,
\* without the final bin, and one at length 4, with it; and a tuple of a
\* negative sum that has no rule
C7_Witness ==
    /\ pc = "done"
    /\ \E k \in LoopRules :
          /\ rules[k].i = maximum_word_length
          /\ RawRise(binned_finas, binned_medis, rules[k].t) = 850
          /\ rules[k].rise = 600
          /\ Len(rules[k].postcontext) = 6
    /\ \E k \in LoopRules :
          /\ rules[k].i = 4
          /\ RawRise(binned_finas, binned_medis, rules[k].t) = 850
          /\ rules[k].rise = 600
          /\ Len(rules[k].postcontext) = 6
    /\ \E t \in AllTuples(1, Len(binned_finas), Len(binned_medis)) :
          /\ RawRise(binned_finas, binned_medis, t) = -120
          /\ \A k \in DOMAIN rules : rules[k].t # t

(***************************************************************************)
(* C8.  Blocker split.                                                     *)
(***************************************************************************)
\* the last step's tuple got rules and kept its final bin
StepKept ==
    /\ StepDone
    /\ StepQ >= 0
    /\ ~(StepQ >= maximum_rise /\ StepI = maximum_word_length)

\* all rules of the last step have the target, the lookup and, up to the
\* innermost group, the context of the first
SameButInnermost ==
    \A j \in 1..LastStep.n :
       /\ LastRules[j].target = LastRules[1].target
       /\ LastRules[j].lookup = LastRules[1].lookup
       /\ Pop(LastRules[j].postcontext) = Pop(LastRules[1].postcontext)

\* C8 as stated: a sequence of more than one group whose innermost group
\* holds a blocker and a non-blocker gets exactly two rules, one for the
\* group without the blockers and one for the blockers the group held.
C8_Original ==
    (/\ StepKept
     /\ StepI >= 1
     /\ FinalGroup \cap Range(blockers) # {}
     /\ FinalGroup \ Range(blockers) # {}) =>
       /\ LastStep.n = 2
       /\ Innermost(LastRules[1]) = FinalGroup \ Range(blockers)
       /\ Innermost(LastRules[2]) = FinalGroup \cap Range(blockers)
       /\ SameButInnermost

\* C8 amended: a sequence whose final group holds a blocker gets a rule for
\* the group without the blockers; when it has a medial group (i >= 1) it
\* gets a second rule whose innermost group is the whole list of blockers,
\* AINf1 and JIMf1, whichever of them the group held; and when its rise is
\* 400 or more at the maximum length it gets a third rule whose innermost
\* group is BARI_YEf1.  All of them have the same target and lookup.
C8_BlockerSplit ==
    (StepKept /\ FinalGroup \cap Range(blockers) # {}) =>
       /\ LastStep.n = (IF StepI >= 1 THEN 2 ELSE 1)
                       + (IF StepQ >= 400 /\ StepI > 4 THEN 1 ELSE 0)
       /\ Innermost(LastRules[1]) = FinalGroup \ Range(blockers)
       /\ StepI >= 1 => Innermost(LastRules[2]) = {"AINf1", "JIMf1"}
       /\ (StepQ >= 400 /\ StepI > 4) =>
             Innermost(LastRules[3]) = {"BARI_YEf1"}
       /\ SameButInnermost

\* a final group with AINf1 and two non-blockers: the second rule is for
\* AINf1 and JIMf1
C8_Witness ==
    /\ StepKept
    /\ StepI >= 1
    /\ FinalGroup = {"AINf1", "BEf1", "REf1"}
    /\ LastStep.n = 2
    /\ Innermost(LastRules[1]) = {"BEf1", "REf1"}
    /\ Innermost(LastRules[2]) = {"AINf1", "JIMf1"}

(***************************************************************************)
(* C9.  AtHeight.                                                          *)
(***************************************************************************)
AtTuples(i) == AllTuples(i, Len(font.binned_finas_all), Len(font.binned_medis))

\* the quantized sum of the rises of tuple t over the bins AtHeight makes
AtQ(t) == quantize(RawRise(font.binned_finas_all, font.binned_medis, t),
                   rise_quantization)

AtCount(i, t) ==
    Cardinality({k \in DOMAIN at_rules :
                   at_rules[k].i = i /\ at_rules[k].t = t})

\* C9 as stated: AtHeight has one rule for each tuple that is not negative
\* and whose rise, capped at 600, lies in the interval, the context without
\* the final group when capped at the maximum length, and no other rule.
C9_Original ==
    pc = "at_done" =>
       /\ \A i \in 0..maximum_word_length :
             \A t \in AtTuples(i) :
                AtCount(i, t) =
                   IF /\ AtQ(t) >= 0
                      /\ word_tail_rise(AtQ(t)) >= at_args[1]
                      /\ word_tail_rise(AtQ(t)) <= at_args[2]
                   THEN 1 ELSE 0
       /\ \A k \in DOMAIN at_rules :
             /\ at_rules[k].rise = word_tail_rise(AtQ(at_rules[k].t))
             /\ Len(at_rules[k].postcontext) =
                   IF at_rules[k].i = maximum_word_length
                      /\ at_rules[k].rise = maximum_rise
                   THEN at_rules[k].i ELSE at_rules[k].i + 1

\* C9 amended: AtHeight enumerates the tuples of its own bins (the finals
\* with the bari-ye glyphs) and has exactly one rule, to the named routine,
\* for each tuple whose sum quantized to the step 100 lies in [low, high]:
\* the sum is not capped at 600, a negative sum is not discarded, and the
\* context is always the i medial groups and the final group, the initials
\* being part of the target.
C9_AtHeightUnclamped ==
    pc = "at_done" =>
       /\ \A i \in 0..maximum_word_length :
             \A t \in AtTuples(i) :
                AtCount(i, t) =
                   IF AtQ(t) >= at_args[1] /\ AtQ(t) <= at_args[2]
                   THEN 1 ELSE 0
       /\ \A k \in DOMAIN at_rules :
             /\ at_rules[k].i \in 0..maximum_word_length
             /\ at_rules[k].t \in AtTuples(at_rules[k].i)
             /\ at_rules[k].rise = AtQ(at_rules[k].t)
             /\ at_rules[k].lookup = at_args[3]
             /\ at_rules[k].target =
                   <<Range(font.isols) \cup Range(font.finas), Range(font.inits)>>
             /\ Len(at_rules[k].postcontext) = at_rules[k].i + 1
             /\ Innermost(at_rules[k]) =
                   font.binned_finas_all[at_rules[k].t[1]].glyphs
             /\ \A m \in 1..at_rules[k].i :
                   at_rules[k].postcontext[m] =
                      font.binned_medis[
                         at_rules[k].t[at_rules[k].i + 2 - m]].glyphs
       /\ \A k \in 1..(Len(at_rules) - 1) :
             \/ at_rules[k + 1].i < at_rules[k].i
             \/ /\ at_rules[k + 1].i = at_rules[k].i
                /\ at_rules[k + 1].t # at_rules[k].t
                /\ LexLeq(at_rules[k].t, at_rules[k + 1].t)

\* the interval 700-1200: a rule of rise 900 at the maximum length, with its
\* final group, which holds BARI_YEf1
C9_Witness ==
    /\ pc = "at_done"
    /\ at_args[1] = 700
    /\ \E k \in DOMAIN at_rules :
          /\ at_rules[k].i = maximum_word_length
          /\ at_rules[k].rise = 900
          /\ Len(at_rules[k].postcontext) = 6
          /\ "BARI_YEf1" \in Innermost(at_rules[k])

(***************************************************************************)
(* C10.  Ink-to-ink.                                                       *)
(***************************************************************************)
\* ten times the closeness tapered for rise r
Scaled10(r) ==
    CASE r = 0 -> 10 * self.distance_at_closest
      [] r = 100 -> 5 * self.distance_at_closest
      [] r \in {200, 300} -> 2 * self.distance_at_closest

\* the rules of routine o for the pair
RulesOfPair(o, right, left) ==
    {j \in DOMAIN o.rules : o.rules[j].glyphs = <<right, left>>}

\* each rise has one ink-to-ink routine, and every dispatch routine of the
\* rise refers to it
InkBuiltOnce ==
    /\ \A r \in DOMAIN hist.inkbuilds : hist.inkbuilds[r] = 1
    /\ \A k \in InkObjects :
          /\ objs[k].r \in {0, 100, 200, 300}
          /\ ink_to_ink_routines[objs[k].r] = k
    /\ \A k \in DOMAIN objs :
          objs[k].kind = "dispatch" =>
             objs[k].rules[1].lookup = ink_to_ink_routines[objs[k].r]

\* C10 as stated: the distance of a pair is the tapered closeness less
\* max(right.rsb, 0) + max(left.lsb, 0), and the pair has a rule, with that
\* distance, exactly when the distance is not 0.
C10_Original ==
    /\ InkBuiltOnce
    /\ \A k \in InkObjects :
          \A right \in Range(isols_finas) :
             \A left \in Range(inits) \cup Range(isols) :
                LET d10 == Scaled10(objs[k].r)
                             - 10 * (Max(font.rsb[right], 0)
                                     + Max(font.lsb[left], 0))
                IN  /\ Cardinality(RulesOfPair(objs[k], right, left)) =
                          IF d10 # 0 THEN 1 ELSE 0
                    /\ \A j \in RulesOfPair(objs[k], right, left) :
                          10 * objs[k].rules[j].xAdvance = d10

\* C10 amended: for a rise below 400 the table is built once and later calls
\* return the same reference; the distance of a pair is the tapered
\* closeness less max(left.rsb, 0) + max(right.lsb, 0) (the right side of
\* the left glyph, the left side of the right glyph), cut to an integer
\* towards zero; the pair has a rule, with that integer, exactly when the
\* integer is not 0, so a distance between -1 and 1 gives no rule.
C10_InkToInk ==
    /\ InkBuiltOnce
    /\ \A k \in InkObjects :
          \A right \in Range(isols_finas) :
             \A left \in Range(inits) \cup Range(isols) :
                LET d10 == Scaled10(objs[k].r)
                             - 10 * (Max(font.rsb[left], 0)
                                     + Max(font.lsb[right], 0))
                    dist == IF d10 >= 0 THEN d10 \div 10 ELSE -((-d10) \div 10)
                IN  /\ Cardinality(RulesOfPair(objs[k], right, left)) =
                          IF dist # 0 THEN 1 ELSE 0
                    /\ \A j \in RulesOfPair(objs[k], right, left) :
                          objs[k].rules[j].xAdvance = dist

\* two dispatch routines of rise 100 share one ink-to-ink routine, in which
\* the pair at half a unit has no rule and a pair at 2.5 units has the rule 2
C10_Witness ==
    /\ self.distance_at_closest = 25
    /\ Cardinality({k \in DOMAIN objs : objs[k].kind = "dispatch"
                                         /\ objs[k].r = 100}) = 2
    /\ hist.inkbuilds[100] = 1
    /\ \E k \in InkObjects :
          /\ objs[k].r = 100
          /\ RulesOfPair(objs[k], "NUNf1", "BEi1") = {}
          /\ \E j \in RulesOfPair(objs[k], "AINf1", "BEi1") :
                objs[k].rules[j].xAdvance =
                   (125 - 10 * (font.rsb["BEi1"] + font.lsb["AINf1"])) \div 10

====
